---- MODULE Spec2Model ----
(***************************************************************************)
(* The movie ranking pipeline of gptproject.py and teamproject.py:         *)
(* read_file, top_n and write_file, each in both implementations.          *)
(*                                                                         *)
(* A Python str is a sequence of one-character strings, so that split,     *)
(* strip, the substring test and the string order are computed and not     *)
(* assumed.  A float is an exact rational <<num, den>> in lowest terms     *)
(* with den > 0: both implementations evaluate the same float expressions  *)
(* in the same order, so rounding never tells them apart.                  *)
(* A call that raises returns [ok |-> FALSE, err |-> <exception>].         *)
(***************************************************************************)
EXTENDS Integers, Sequences, FiniteSets, TLC

(* ------------------------------ bounds -------------------------------- *)

\* Most data lines in an input file, rows in a dataset, entries in a report.
MaxRows == 3
\* Largest limit n passed to top_n.
MaxN == 3

(* ------------------------------ str ----------------------------------- *)

\* The characters in use, in code point order.
Alphabet ==
    << "\n", " ", ",", "-", ".", "0", "1", "2", "3", "4", "5", "6", "7", "8", "9", ";",
       "A", "B", "C", "D", "F", "S", "a", "c", "d", "i", "l", "m", "n", "o",
       "r", "t", "x" >>

Digits == {"0", "1", "2", "3", "4", "5", "6", "7", "8", "9"}

Whitespace == {" ", "\n"}

\* ord(c), up to an order-preserving renumbering of the code points.
ord(c) == CHOOSE i \in 1..Len(Alphabet) : Alphabet[i] = c

DigitVal(c) ==
    CASE c = "0" -> 0 [] c = "1" -> 1 [] c = "2" -> 2 [] c = "3" -> 3 [] c = "4" -> 4
      [] c = "5" -> 5 [] c = "6" -> 6 [] c = "7" -> 7 [] c = "8" -> 8 [] c = "9" -> 9

\* s < t for two str: the first differing character decides, a proper prefix
\* is smaller.
RECURSIVE StrLess(_, _)
StrLess(s, t) ==
    IF t = <<>> THEN FALSE
    ELSE IF s = <<>> THEN TRUE
    ELSE IF s[1] # t[1] THEN ord(s[1]) < ord(t[1])
    ELSE StrLess(Tail(s), Tail(t))

\* sub in s, for two str: sub occurs in s as a contiguous run.
Contains(sub, s) ==
    \E i \in 1..(Len(s) - Len(sub) + 1) : SubSeq(s, i, i + Len(sub) - 1) = sub

\* x in xs, for a list xs.
InList(x, xs) == \E i \in 1..Len(xs) : xs[i] = x

\* s.find(sep) + 1, or 0 when sep does not occur.
Find(sep, s) ==
    IF Contains(sep, s)
    THEN CHOOSE i \in 1..(Len(s) - Len(sep) + 1) :
            /\ SubSeq(s, i, i + Len(sep) - 1) = sep
            /\ \A j \in 1..(i - 1) : SubSeq(s, j, j + Len(sep) - 1) # sep
    ELSE 0

\* s.split(sep) for a non-empty sep: never an empty list; "" gives [""].
RECURSIVE split(_, _)
split(s, sep) ==
    LET i == Find(sep, s)
    IN  IF i = 0 THEN << s >>
        ELSE << SubSeq(s, 1, i - 1) >> \o split(SubSeq(s, i + Len(sep), Len(s)), sep)

\* s.strip(): leading and trailing whitespace removed.
RECURSIVE lstrip(_)
lstrip(s) == IF s # <<>> /\ s[1] \in Whitespace THEN lstrip(Tail(s)) ELSE s

RECURSIVE rstrip(_)
rstrip(s) ==
    IF s # <<>> /\ s[Len(s)] \in Whitespace THEN rstrip(SubSeq(s, 1, Len(s) - 1)) ELSE s

strip(s) == rstrip(lstrip(s))

\* sep.join(parts).
RECURSIVE join(_, _)
join(parts, sep) ==
    IF parts = <<>> THEN <<>>
    ELSE IF Len(parts) = 1 THEN parts[1]
    ELSE parts[1] \o sep \o join(Tail(parts), sep)

(* ------------------------------ results ------------------------------- *)

\* A call that returns val, and a call that raises err.
Return(val) == [ok |-> TRUE, val |-> val, err |-> "none"]

Raise(err) == [ok |-> FALSE, val |-> <<>>, err |-> err]

(* ------------------------------ numbers ------------------------------- *)

Abs(x) == IF x < 0 THEN 0 - x ELSE x

RECURSIVE GCD(_, _)
GCD(a, b) == IF b = 0 THEN a ELSE GCD(b, a % b)

\* The rational num/den (den # 0) in lowest terms with a positive denominator.
Rat(num, den) ==
    LET g == GCD(Abs(num), Abs(den))
        s == IF den < 0 THEN 0 - 1 ELSE 1
    IN  << (s * num) \div g, (s * den) \div g >>

RAdd(a, b) == Rat(a[1] * b[2] + b[1] * a[2], a[2] * b[2])

RNeg(a) == << 0 - a[1], a[2] >>

\* a / k for an integer k # 0.
RDivInt(a, k) == Rat(a[1], a[2] * k)

RLess(a, b) == a[1] * b[2] < b[1] * a[2]

RMax2(a, b) == IF RLess(a, b) THEN b ELSE a

\* max(xs) for a non-empty list of floats.
RECURSIVE RMax(_)
RMax(xs) == IF Len(xs) = 1 THEN xs[1] ELSE RMax2(xs[1], RMax(Tail(xs)))

\* sum(xs), starting from 0.
RECURSIVE RSum(_)
RSum(xs) == IF xs = <<>> THEN << 0, 1 >> ELSE RAdd(RSum(SubSeq(xs, 1, Len(xs) - 1)), xs[Len(xs)])

AllDigits(s) == \A i \in 1..Len(s) : s[i] \in Digits

\* The value of a run of decimal digits ("" is 0).
RECURSIVE DigitsVal(_)
DigitsVal(s) ==
    IF s = <<>> THEN 0 ELSE 10 * DigitsVal(SubSeq(s, 1, Len(s) - 1)) + DigitVal(s[Len(s)])

RECURSIVE Pow10(_)
Pow10(k) == IF k = 0 THEN 1 ELSE 10 * Pow10(k - 1)

Unsigned(t) == IF t # <<>> /\ t[1] = "-" THEN Tail(t) ELSE t

\* int(s) succeeds: optional whitespace around an optional sign and digits.
IsInt(s) == LET u == Unsigned(strip(s)) IN u # <<>> /\ AllDigits(u)

\* int(s), where it succeeds.
int(s) ==
    LET t == strip(s)
        v == DigitsVal(Unsigned(t))
    IN  IF t # <<>> /\ t[1] = "-" THEN 0 - v ELSE v

\* float(s) succeeds: optional whitespace around an optional sign, digits and
\* at most one point, with a digit on at least one side of it.
IsFloat(s) ==
    LET p == split(Unsigned(strip(s)), << "." >>)
    IN  /\ Len(p) \in {1, 2}
        /\ \A i \in 1..Len(p) : AllDigits(p[i])
        /\ \E i \in 1..Len(p) : p[i] # <<>>

\* float(s), where it succeeds.
float(s) ==
    LET t == strip(s)
        p == split(Unsigned(t), << "." >>)
        frac == IF Len(p) = 2 THEN p[2] ELSE <<>>
        v == Rat(DigitsVal(p[1]) * Pow10(Len(frac)) + DigitsVal(frac), Pow10(Len(frac)))
    IN  IF t # <<>> /\ t[1] = "-" THEN RNeg(v) ELSE v

(* ------------------------------ read_file ----------------------------- *)

\* The loop of gptproject.read_file skipping the lines it cannot index, and
\* parsing the year only when a year is asked for.
RECURSIVE gpt_read_rows_lenient(_, _)
gpt_read_rows_lenient(lines, year) ==
    IF lines = <<>> THEN Return(<<>>)
    ELSE LET row == split(strip(lines[1]), << ";" >>)
             rest == gpt_read_rows_lenient(Tail(lines), year)
         IN  IF Len(row) < 7 THEN rest
             ELSE IF year # 0 /\ ~IsInt(row[7]) THEN Raise("ValueError")
             ELSE IF ~rest.ok THEN rest
             ELSE IF year = 0 \/ int(row[7]) >= year THEN Return(<< row >> \o rest.val)
             ELSE rest

\* gptproject.read_file, the loop body over the lines after the header: the
\* first line that cannot be indexed or parsed raises.
RECURSIVE gpt_read_rows(_, _)
gpt_read_rows(lines, year) ==
    IF lines = <<>> THEN Return(<<>>)
    ELSE LET row == split(strip(lines[1]), << ";" >>)
         IN  IF Len(row) < 7 THEN Raise("IndexError")
             ELSE IF ~IsInt(row[7]) THEN Raise("ValueError")
             ELSE LET rest == gpt_read_rows(Tail(lines), year)
                      movie_year == int(row[7])
                  IN  IF ~rest.ok THEN rest
                      ELSE IF year = 0 \/ movie_year >= year
                      THEN Return(<< row >> \o rest.val)
                      ELSE rest

\* gptproject.read_file(pathname, year), file being the lines at pathname.
gpt_read_file(file, year) ==
    IF file = <<>> THEN Return(<<>>) ELSE gpt_read_rows(Tail(file), year)

\* teamproject.read_file, the list comprehension over the lines after the
\* header: the condition indexes and parses the unstripped line.
RECURSIVE team_read_rows(_, _)
team_read_rows(lines, year) ==
    IF lines = <<>> THEN Return(<<>>)
    ELSE LET fields == split(lines[1], << ";" >>)
         IN  IF Len(fields) < 7 THEN Raise("IndexError")
             ELSE IF ~IsInt(fields[7]) THEN Raise("ValueError")
             ELSE LET rest == team_read_rows(Tail(lines), year)
                  IN  IF ~rest.ok THEN rest
                      ELSE IF int(fields[7]) >= year
                      THEN Return(<< split(strip(lines[1]), << ";" >>) >> \o rest.val)
                      ELSE rest

\* teamproject.read_file(pathname, year), file being the lines at pathname.
team_read_file(file, year) ==
    IF file = <<>> THEN Return(<<>>) ELSE team_read_rows(Tail(file), year)

(* ------------------------------ top_n --------------------------------- *)

\* xs[:n], Python's slice: a negative n counts from the end.
SliceTo(xs, n) ==
    IF n >= 0 THEN SubSeq(xs, 1, IF n < Len(xs) THEN n ELSE Len(xs))
    ELSE SubSeq(xs, 1, IF Len(xs) + n > 0 THEN Len(xs) + n ELSE 0)

\* The order of the sort keys, tuples (float, str): the floats decide, then
\* the strings.
KeyLess(k1, k2) == RLess(k1[1], k2[1]) \/ (k1[1] = k2[1] /\ StrLess(k1[2], k2[2]))

\* One step of a stable sort of pairs <<key, item>>: p goes behind every pair
\* whose key is not greater.
RECURSIVE InsertByKey(_, _)
InsertByKey(p, ps) ==
    IF ps = <<>> THEN << p >>
    ELSE IF KeyLess(p[1], ps[1][1]) THEN << p >> \o ps
    ELSE << ps[1] >> \o InsertByKey(p, Tail(ps))

RECURSIVE SortByKey(_)
SortByKey(ps) ==
    IF ps = <<>> THEN <<>>
    ELSE InsertByKey(ps[Len(ps)], SortByKey(SubSeq(ps, 1, Len(ps) - 1)))

\* The items of sorted pairs <<key, item>>.
Items(ps) == [i \in 1..Len(ps) |-> ps[i][2]]

\* The ratings float() rejects, among the movies.
BadRating(movie) == ~IsFloat(movie[9])

\* gptproject.top_n.get_highest_rating_for_actor: the generator parses the
\* rating of every movie whose actor field contains the name as a substring.
get_highest_rating_for_actor(actor, all_movies) ==
    LET found == SelectSeq(all_movies, LAMBDA movie : Contains(actor, movie[6]))
    IN  IF \E i \in 1..Len(found) : BadRating(found[i]) THEN Raise("ValueError: float")
        ELSE IF found = <<>> THEN Raise("ValueError: max")
        ELSE Return(RMax([i \in 1..Len(found) |-> float(found[i][9])]))

\* gptproject.top_n, genre_list: the stripped tokens, none for ''.
gpt_genre_list(genre) ==
    IF genre = <<>> THEN <<>>
    ELSE LET gs == split(genre, << "," >>) IN [i \in 1..Len(gs) |-> strip(gs[i])]

\* gptproject.top_n, the condition of filtered_movies: a token passes when it
\* occurs anywhere in the genre field.
gpt_passes(movie, genre) ==
    LET genre_list == gpt_genre_list(genre)
    IN  genre_list = <<>> \/ \E i \in 1..Len(genre_list) : Contains(genre_list[i], movie[3])

\* The actors of a movie with empty names dropped, as a split that skips
\* empty strings gives them: none for an empty actor field.
gpt_actors_nonempty(movie) ==
    SelectSeq(split(movie[6], << ",", " " >>), LAMBDA actor : actor # <<>>)

\* gptproject.top_n, actors of a movie.
gpt_actors(movie) == split(movie[6], << ",", " " >>)

\* gptproject.top_n, the list actor_ratings of one movie: the first lookup
\* that raises ends it.
RECURSIVE gpt_actor_ratings(_, _)
gpt_actor_ratings(actors, data) ==
    IF actors = <<>> THEN Return(<<>>)
    ELSE LET first == get_highest_rating_for_actor(actors[1], data)
         IN  IF ~first.ok THEN first
             ELSE LET rest == gpt_actor_ratings(Tail(actors), data)
                  IN  IF ~rest.ok THEN rest ELSE Return(<< first.val >> \o rest.val)

\* gptproject.top_n, the loop that fills movie_ratings with
\* (Title, Rating, Actor_Rating).
RECURSIVE gpt_movie_ratings(_, _)
gpt_movie_ratings(filtered_movies, data) ==
    IF filtered_movies = <<>> THEN Return(<<>>)
    ELSE LET movie == filtered_movies[1]
             actor_ratings == gpt_actor_ratings(gpt_actors(movie), data)
         IN  IF BadRating(movie) THEN Raise("ValueError: float")
             ELSE IF ~actor_ratings.ok THEN actor_ratings
             ELSE IF Len(actor_ratings.val) = 0 THEN Raise("ZeroDivisionError")
             ELSE LET rest == gpt_movie_ratings(Tail(filtered_movies), data)
                      actor_rating == RDivInt(RSum(actor_ratings.val), Len(actor_ratings.val))
                  IN  IF ~rest.ok THEN rest
                      ELSE Return(<< << movie[2], float(movie[9]), actor_rating >> >> \o rest.val)

\* sort_key with the title left out of the key: ties keep the dataset's order.
sort_key_untied(movie_info) ==
    << RNeg(RDivInt(RAdd(movie_info[2], movie_info[3]), 2)), <<>> >>

\* gptproject.top_n.sort_key.
sort_key(movie_info) ==
    LET combined_rating == RDivInt(RAdd(movie_info[2], movie_info[3]), 2)
    IN  << RNeg(combined_rating), movie_info[1] >>

\* gptproject.top_n, sorted(movie_ratings, key=sort_key): stable, ascending.
gpt_sorted(movie_ratings) ==
    Items(SortByKey([i \in 1..Len(movie_ratings) |->
                       << sort_key(movie_ratings[i]), movie_ratings[i] >>]))

\* gptproject.top_n, the slice sorted_movies[:n or None].
gpt_slice(sorted_movies, n) ==
    IF n = 0 THEN sorted_movies ELSE SliceTo(sorted_movies, n)

\* gptproject.top_n(data, genre, n).
gpt_top_n(data, genre, n) ==
    LET filtered_movies == SelectSeq(data, LAMBDA movie : gpt_passes(movie, genre))
        movie_ratings == gpt_movie_ratings(filtered_movies, data)
    IN  IF ~movie_ratings.ok THEN movie_ratings
        ELSE LET top == gpt_slice(gpt_sorted(movie_ratings.val), n)
             IN  Return([i \in 1..Len(top) |->
                           << top[i][1], RDivInt(RAdd(top[i][2], top[i][3]), 2) >>])

\* teamproject.top_n, genre after its split: a str when there is no comma,
\* else the list of tokens.
team_genre(genre) ==
    LET gs == split(genre, << "," >>)
    IN  IF Len(gs) <= 1 THEN [isstr |-> TRUE, str |-> join(gs, <<>>), list |-> <<>>]
        ELSE [isstr |-> FALSE, str |-> <<>>, list |-> gs]

\* teamproject.top_n.is_in_genres.
is_in_genres(film_genres, genre) ==
    IF genre.isstr /\ genre.str = <<>> THEN TRUE
    ELSE IF genre.isstr THEN InList(genre.str, film_genres)
    ELSE \E i \in 1..Len(genre.list) : InList(genre.list[i], film_genres)

\* teamproject.top_n, actors of a film.
team_actors(film) == split(film[6], << ",", " " >>)

\* The first loop of teamproject.top_n rating only the first actor of a film.
team_rate_first_actor(actors, rating, actors_rating) ==
    LET actor == actors[1]
    IN  IF actor \notin DOMAIN actors_rating
        THEN [a \in DOMAIN actors_rating \cup {actor} |->
                IF a = actor THEN rating ELSE actors_rating[a]]
        ELSE [actors_rating EXCEPT ![actor] = RMax2(actors_rating[actor], rating)]

\* teamproject.top_n, one film's updates of the dict actors_rating.
RECURSIVE team_rate_actors(_, _, _)
team_rate_actors(actors, rating, actors_rating) ==
    IF actors = <<>> THEN actors_rating
    ELSE LET actor == actors[1]
             updated ==
                 IF actor \notin DOMAIN actors_rating
                 THEN [a \in DOMAIN actors_rating \cup {actor} |->
                         IF a = actor THEN rating ELSE actors_rating[a]]
                 ELSE [actors_rating EXCEPT ![actor] = RMax2(actors_rating[actor], rating)]
         IN  team_rate_actors(Tail(actors), rating, updated)

\* teamproject.top_n, the first loop: actors_rating over the whole of data.
RECURSIVE team_actors_rating(_, _)
team_actors_rating(data, actors_rating) ==
    IF data = <<>> THEN Return(actors_rating)
    ELSE LET film == data[1]
         IN  IF BadRating(film) THEN Raise("ValueError: float")
             ELSE team_actors_rating(Tail(data),
                     team_rate_actors(team_actors(film), float(film[9]), actors_rating))

\* teamproject.top_n, the inner loop avg_rating += actors_rating[actor].
RECURSIVE team_avg_rating(_, _)
team_avg_rating(actors, actors_rating) ==
    IF actors = <<>> THEN Return(<< 0, 1 >>)
    ELSE LET init == team_avg_rating(SubSeq(actors, 1, Len(actors) - 1), actors_rating)
             actor == actors[Len(actors)]
         IN  IF ~init.ok THEN init
             ELSE IF actor \notin DOMAIN actors_rating THEN Raise("KeyError")
             ELSE Return(RAdd(init.val, actors_rating[actor]))

\* teamproject.top_n, the second loop: answer, a list of
\* (title, rating, average_actor_rating).
RECURSIVE team_answer(_, _, _)
team_answer(data, genre, actors_rating) ==
    IF data = <<>> THEN Return(<<>>)
    ELSE LET film == data[1]
             film_genre == split(film[3], << "," >>)
             actors == team_actors(film)
             avg_rating == team_avg_rating(actors, actors_rating)
         IN  IF ~is_in_genres(film_genre, genre) THEN team_answer(Tail(data), genre, actors_rating)
             ELSE IF ~avg_rating.ok THEN avg_rating
             ELSE IF Len(actors) = 0 THEN Raise("ZeroDivisionError")
             ELSE LET rest == team_answer(Tail(data), genre, actors_rating)
                      average_actor_rating == RDivInt(avg_rating.val, Len(actors))
                  IN  IF ~rest.ok THEN rest
                      ELSE Return(<< << film[2], float(film[9]), average_actor_rating >> >>
                                    \o rest.val)

\* teamproject.top_n.sorting_lambda.
sorting_lambda(temp) == << RDivInt(RNeg(RAdd(temp[2], temp[3])), 2), temp[1] >>

\* teamproject.top_n, sorted(answer, key=sorting_lambda): stable, ascending.
team_sorted(answer) ==
    Items(SortByKey([i \in 1..Len(answer) |-> << sorting_lambda(answer[i]), answer[i] >>]))

\* teamproject.top_n, the last line: answer[:n] if n > 0 else answer.
team_slice(answer, n) == IF n > 0 THEN SliceTo(answer, n) ELSE answer

\* teamproject.top_n(data, genre, n).
team_top_n(data, genre, n) ==
    LET actors_rating == team_actors_rating(data, << >>)
    IN  IF ~actors_rating.ok THEN actors_rating
        ELSE LET answer == team_answer(data, team_genre(genre), actors_rating.val)
             IN  IF ~answer.ok THEN answer
                 ELSE LET ranked == team_sorted(answer.val)
                          scored == [i \in 1..Len(ranked) |->
                                       << ranked[i][1],
                                          RDivInt(RAdd(ranked[i][2], ranked[i][3]), 2) >>]
                      IN  Return(team_slice(scored, n))

(* ------------------------------ write_file ---------------------------- *)

\* The digits of a natural number, at least one.
RECURSIVE NatStr(_)
NatStr(k) ==
    IF k < 10 THEN << CHOOSE c \in Digits : DigitVal(c) = k >>
    ELSE NatStr(k \div 10) \o << CHOOSE c \in Digits : DigitVal(c) = k % 10 >>

\* The digits after the point of rem/den < 1, for a terminating decimal.
RECURSIVE FracStr(_, _)
FracStr(rem, den) ==
    IF rem = 0 THEN <<>>
    ELSE NatStr((10 * rem) \div den) \o FracStr((10 * rem) % den, den)

\* str(x) for a float x >= 0 with a terminating decimal expansion: the
\* shortest text, with at least one digit after the point ("8.0", "7.25").
FloatStr(x) ==
    LET frac == FracStr(x[1] % x[2], x[2])
    IN  NatStr(x[1] \div x[2]) \o << "." >> \o (IF frac = <<>> THEN << "0" >> ELSE frac)

\* The line f"{title}, {rating}\n" of one entry.
EntryLine(entry) == entry[1] \o << ",", " " >> \o FloatStr(entry[2]) \o << "\n" >>

\* write_file opening the file with 'a': the old lines stay.
gpt_write_file_append(top, content) ==
    content \o [i \in 1..Len(top) |-> EntryLine(top[i])]

\* gptproject.write_file(top, file_name): the lines at file_name afterwards,
\* from the lines there before.  open(file_name, 'w') truncates.
gpt_write_file(top, content) == <<>> \o [i \in 1..Len(top) |-> EntryLine(top[i])]

\* teamproject.write_file(top, file_name), likewise.
team_write_file(top, content) == <<>> \o [i \in 1..Len(top) |-> EntryLine(top[i])]

(* ------------------------------ inputs -------------------------------- *)

\* One line of the input file from its twelve fields.
Line(rank, title, genre, actors, year, rating) ==
    join(<< rank, title, genre, << "d" >>, << "r" >>, actors, year, << "1" >>, rating,
            << "1" >>, << "1" >>, << "1" >> >>, << ";" >>) \o << "\n" >>

Action == << "A", "c", "t", "i", "o", "n" >>
SciFi == << "S", "c", "i", "-", "F", "i" >>
Sci == << "S", "c", "i" >>
Drama == << "D", "r", "a", "m", "a" >>
Al == << "A", "l" >>
Bo == << "B", "o" >>
Alan == << "A", "l", "a", "n" >>
Y2014 == << "2", "0", "1", "4" >>
Y2015 == << "2", "0", "1", "5" >>
Y2016 == << "2", "0", "1", "6" >>

\* The well-formed movie lines: a shared actor, a name that is a substring of
\* another, an empty actor field, two genres, a rating that does not parse, a
\* year below zero, and titles that tie on the score.
MovieLines ==
    << Line(<< "1" >>, << "A" >>, Action, Al \o << ",", " " >> \o Bo, Y2014,
            << "8", ".", "0" >>),
       Line(<< "2" >>, << "B" >>, Action, Al, Y2016, << "6", ".", "0" >>),
       Line(<< "3" >>, << "a" >>, SciFi, Alan, Y2015, << "7", ".", "0" >>),
       Line(<< "4" >>, << "C" >>, Action \o << "," >> \o SciFi, <<>>, << "-", "1" >>,
            << "7", ".", "0" >>),
       Line(<< "5" >>, << "A", "B" >>, Drama, Bo, Y2014, << "6", ".", "0" >>),
       Line(<< "6" >>, << "D" >>, Drama, Bo, Y2016, <<>>) >>

\* Lines read_file may meet besides: too few fields, a blank line, a year
\* that is no integer, and seven fields only, the year last.
OtherLines ==
    << join(<< << "7" >>, << "D" >>, Drama >>, << ";" >>) \o << "\n" >>,
       << "\n" >>,
       Line(<< "8" >>, << "D" >>, Drama, Bo, << "x" >>, << "6", ".", "0" >>),
       join(<< << "9" >>, << "D" >>, Drama, << "d" >>, << "r" >>, Bo, Y2015 >>, << ";" >>)
          \o << "\n" >> >>

Header == << "m", "o", "l", "d", "\n" >>

\* The sequences over S of length at most k.
RECURSIVE SeqsUpTo(_, _)
SeqsUpTo(S, k) ==
    IF k = 0 THEN { <<>> }
    ELSE LET shorter == SeqsUpTo(S, k - 1)
         IN  shorter \cup { Append(q, x) : q \in { r \in shorter : Len(r) = k - 1 }, x \in S }

Range(xs) == { xs[i] : i \in 1..Len(xs) }

\* Input files: no line at all, or a header and at most MaxRows data lines.
ReadLines == Range(SubSeq(MovieLines, 1, 4)) \cup Range(OtherLines)

Files == { <<>> } \cup { << Header >> \o ls : ls \in SeqsUpTo(ReadLines, MaxRows) }

YearArgs == {0 - 2, 0, 2015, 2016}

\* Datasets: at most MaxRows rows, each as read_file parses a movie line.
Rows == { split(strip(l), << ";" >>) : l \in Range(MovieLines) }

Datasets == SeqsUpTo(Rows, MaxRows)

GenreArgs ==
    { <<>>, Action, Sci, Drama \o << "," >> \o SciFi,
      Action \o << ",", " " >> \o Drama, Drama \o << "," >> }

NArgs == (0 - 1)..MaxN

\* Reports: at most MaxRows entries (title, score).
Entries ==
    { << << "A" >>, << 8, 1 >> >>, << << "B" >>, << 29, 4 >> >>, << << "a" >>, << 44, 5 >> >> }

Reports == SeqsUpTo(Entries, MaxRows)

\* What file_name may hold before the first write_file: nothing, or lines of
\* any origin.
OldContents == { <<>>, << << "o", "l", "d", "\n" >> >>, << Header, << "\n" >> >> }

(* ------------------------------ state --------------------------------- *)

VARIABLES
    file,   \* the lines of the input file
    rd,     \* the last read_file call: implementation, year, result
    data,   \* the dataset handed to top_n
    tn,     \* the last top_n call: implementation, genre, n, result
    disk,   \* the lines of the output file
    wr      \* the last write_file call: implementation, top, lines there before

vars == << file, rd, data, tn, disk, wr >>

NoRead == [impl |-> "none", year |-> 0, result |-> Return(<<>>)]
NoTopN == [impl |-> "none", genre |-> <<>>, n |-> 0, result |-> Return(<<>>)]
NoWrite == [impl |-> "none", top |-> <<>>, before |-> 0]

\* read_file keeps nothing between calls: a behaviour is one call, of either
\* module, on one input file.
InitRead ==
    /\ file \in Files
    /\ rd = NoRead
    /\ data = <<>> /\ tn = NoTopN /\ disk = <<>> /\ wr = NoWrite

GptReadFile ==
    /\ rd.impl = "none"
    /\ \E year \in YearArgs :
          rd' = [impl |-> "gpt", year |-> year, result |-> gpt_read_file(file, year)]
    /\ UNCHANGED << file, data, tn, disk, wr >>

TeamReadFile ==
    /\ rd.impl = "none"
    /\ \E year \in YearArgs :
          rd' = [impl |-> "team", year |-> year, result |-> team_read_file(file, year)]
    /\ UNCHANGED << file, data, tn, disk, wr >>

NextRead == GptReadFile \/ TeamReadFile

SpecRead == InitRead /\ [][NextRead]_vars

\* top_n keeps nothing between calls either: a behaviour is one call on one
\* dataset.
InitTopN ==
    /\ data \in Datasets
    /\ tn = NoTopN
    /\ file = <<>> /\ rd = NoRead /\ disk = <<>> /\ wr = NoWrite

GptTopN ==
    /\ tn.impl = "none"
    /\ \E genre \in GenreArgs, n \in NArgs :
          tn' = [impl |-> "gpt", genre |-> genre, n |-> n, result |-> gpt_top_n(data, genre, n)]
    /\ UNCHANGED << file, rd, data, disk, wr >>

TeamTopN ==
    /\ tn.impl = "none"
    /\ \E genre \in GenreArgs, n \in NArgs :
          tn' = [impl |-> "team", genre |-> genre, n |-> n,
                 result |-> team_top_n(data, genre, n)]
    /\ UNCHANGED << file, rd, data, disk, wr >>

NextTopN == GptTopN \/ TeamTopN

SpecTopN == InitTopN /\ [][NextTopN]_vars

\* write_file, any number of times, of either module, on one output file.
InitWrite ==
    /\ disk \in OldContents
    /\ wr = NoWrite
    /\ file = <<>> /\ rd = NoRead /\ data = <<>> /\ tn = NoTopN

GptWriteFile ==
    /\ \E top \in Reports :
          /\ disk' = gpt_write_file(top, disk)
          /\ wr' = [impl |-> "gpt", top |-> top, before |-> Len(disk)]
    /\ UNCHANGED << file, rd, data, tn >>

TeamWriteFile ==
    /\ \E top \in Reports :
          /\ disk' = team_write_file(top, disk)
          /\ wr' = [impl |-> "team", top |-> top, before |-> Len(disk)]
    /\ UNCHANGED << file, rd, data, tn >>

NextWrite == GptWriteFile \/ TeamWriteFile

SpecWrite == InitWrite /\ [][NextWrite]_vars

(* ------------------------------ claims -------------------------------- *)

\* What the claims say, stated apart from the two modules.

TopNCalled == tn.impl # "none"

Report == tn.result.val

\* The actor names of a movie: its actor field split on ", ".
ActorNames(movie) == split(movie[6], << ",", " " >>)

\* An actor's best rating: the maximum rating over the movies of the dataset
\* whose actor names include exactly that name.
BestRating(actor, dataset) ==
    LET credited == SelectSeq(dataset, LAMBDA movie : InList(actor, ActorNames(movie)))
    IN  RMax([i \in 1..Len(credited) |-> float(credited[i][9])])

\* (r + m) / 2: r the movie's rating, m the mean of its actors' best ratings.
ExpectedScore(movie, dataset) ==
    LET names == ActorNames(movie)
        m == RDivInt(RSum([i \in 1..Len(names) |-> BestRating(names[i], dataset)]),
                     Len(names))
    IN  RDivInt(RAdd(float(movie[9]), m), 2)

AllRatingsParse(dataset) == \A i \in 1..Len(dataset) : IsFloat(dataset[i][9])

\* A movie passes a genre filter on exact tokens.
PassesExactly(movie, genre) ==
    \/ genre = <<>>
    \/ \E g \in Range(split(genre, << "," >>)) : g \in Range(split(movie[3], << "," >>))

\* The filter the called module applies.
PassesCalled(movie) ==
    IF tn.impl = "gpt" THEN gpt_passes(movie, tn.genre)
    ELSE is_in_genres(split(movie[3], << "," >>), team_genre(tn.genre))

\* The full ranking of the called module: its report for n = 0.
FullRanking ==
    IF tn.impl = "gpt" THEN gpt_top_n(data, tn.genre, 0).val
    ELSE team_top_n(data, tn.genre, 0).val

Min(a, b) == IF a < b THEN a ELSE b

\* C1: every entry of a report returned by top_n, in both modules, is the
\* title of a movie of the dataset with the score (r + m) / 2, m the mean of
\* the best ratings of the movie's actors, each best rating taken over the
\* movies of the whole dataset that credit exactly that name.
C1_ScoreIsMeanOfExactBest ==
    (TopNCalled /\ tn.result.ok) =>
        \A i \in 1..Len(Report) :
            \E j \in 1..Len(data) :
                /\ data[j][2] = Report[i][1]
                /\ Report[i][2] = ExpectedScore(data[j], data)

\* C2: a movie is in the report of top_n(data, genre, 0) exactly when genre
\* is '' or one of its tokens equals one of the tokens of the movie's genre
\* field; a token that is only a substring of a genre does not count.
C2_PassesOnExactToken ==
    (TopNCalled /\ tn.n = 0 /\ tn.result.ok) =>
        /\ \A j \in 1..Len(data) :
              PassesExactly(data[j], tn.genre) <=>
                  \E i \in 1..Len(Report) : Report[i][1] = data[j][2]
        /\ Len(Report) = Len(SelectSeq(data, LAMBDA movie : PassesExactly(movie, tn.genre)))

\* C3: top_n returns the first n entries of the full ranking when n > 0 and
\* the whole ranking for every other n, negative n included.
C3_LimitOnlyWhenPositive ==
    (TopNCalled /\ tn.result.ok) =>
        Report = IF tn.n > 0 THEN SubSeq(FullRanking, 1, Min(tn.n, Len(FullRanking)))
                 ELSE FullRanking

\* C4: in every report returned by top_n, an earlier entry never has a lower
\* score than a later one, and of two entries with equal scores the earlier
\* never has the greater title.
C4_SortedByScoreThenTitle ==
    (TopNCalled /\ tn.result.ok) =>
        \A i, j \in 1..Len(Report) :
            i < j =>
                /\ ~RLess(Report[i][2], Report[j][2])
                /\ Report[i][2] = Report[j][2] => ~StrLess(Report[j][1], Report[i][1])

\* C4's case: two movies tie on the score and stand in the dataset in the
\* opposite order of their titles.
C4_Witness ==
    /\ TopNCalled /\ tn.result.ok /\ Len(Report) >= 2
    /\ Report[1][2] = Report[2][2]
    /\ StrLess(Report[1][1], Report[2][1])
    /\ data[1][2] = Report[2][1]

\* C7 as claimed, for n = 0: when a movie that passes the genre filter has an
\* empty actor field, top_n fails instead of returning a report.
C7_EmptyActorFieldFails ==
    (TopNCalled /\ tn.n = 0
       /\ \E j \in 1..Len(data) : PassesCalled(data[j]) /\ data[j][6] = <<>>) =>
        ~tn.result.ok

\* C7, amended: an empty actor field parses to one actor, the empty name, so
\* top_n never divides by zero; when a movie that passes the genre filter has
\* an empty actor field and every rating parses, top_n returns a report,
\* which for n = 0 holds that movie.
C7_EmptyActorFieldIsOneActor ==
    /\ tn.result.err # "ZeroDivisionError"
    /\ \A j \in 1..Len(data) :
          (TopNCalled /\ AllRatingsParse(data) /\ PassesCalled(data[j]) /\ data[j][6] = <<>>) =>
              /\ tn.result.ok
              /\ tn.n = 0 => \E i \in 1..Len(Report) : Report[i][1] = data[j][2]

\* C7's case: top_n was called with a genre, a passing movie has an empty
\* actor field, and the report returned holds it.
C7_Witness ==
    /\ TopNCalled /\ tn.genre # <<>> /\ tn.n = 0 /\ tn.result.ok
    /\ \E j \in 1..Len(data) :
          /\ PassesCalled(data[j]) /\ data[j][6] = <<>>
          /\ \E i \in 1..Len(Report) : Report[i][1] = data[j][2]

\* C9: when every rating of the dataset parses, no lookup of an actor's best
\* rating fails: teamproject finds the key, gptproject takes the max of a
\* non-empty set.
C9_BestRatingLookupNeverFails ==
    (TopNCalled /\ AllRatingsParse(data)) =>
        tn.result.err \notin {"KeyError", "ValueError: max"}

\* C9's case: a report over movies with several actors, one of them shared.
C9_Witness ==
    /\ TopNCalled /\ tn.impl = "team" /\ tn.genre # <<>> /\ AllRatingsParse(data)
    /\ Len(Report) >= 2
    /\ \E j \in 1..Len(data) : Len(ActorNames(data[j])) >= 2

\* C10: for every dataset, genre and n >= 0 the two modules return the same
\* list of (title, score) pairs in the same order.
C10_SameReport ==
    (TopNCalled /\ tn.n >= 0) =>
        LET g == gpt_top_n(data, tn.genre, tn.n)
            t == team_top_n(data, tn.genre, tn.n)
        IN  (g.ok /\ t.ok) => g.val = t.val

ReadCalled == rd.impl # "none"

DataLines == IF file = <<>> THEN <<>> ELSE Tail(file)

Fields(line) == split(strip(line), << ";" >>)

\* A data line with fewer than 7 fields or a field 6 that is no integer.
Malformed(line) == Len(Fields(line)) < 7 \/ ~IsInt(Fields(line)[7])

\* C5: read_file(path, Y) returns the data rows with year >= Y when Y # 0 and
\* every data row when Y = 0, the header dropped, in file order.
C5_YearFilter ==
    (ReadCalled /\ \A i \in 1..Len(DataLines) : ~Malformed(DataLines[i])) =>
        /\ rd.result.ok
        /\ rd.result.val =
              SelectSeq([i \in 1..Len(DataLines) |-> Fields(DataLines[i])],
                        LAMBDA row : rd.year = 0 \/ int(row[7]) >= rd.year)

\* C8: read_file fails, with no dataset at all, whenever a data line has
\* fewer than 7 fields or a field 6 that is no integer, wherever the line is
\* and whether or not its year would have passed.
C8_MalformedLineAborts ==
    (ReadCalled /\ \E i \in 1..Len(DataLines) : Malformed(DataLines[i])) =>
        ~rd.result.ok /\ rd.result.val = <<>>

\* C8's case: rows that pass the filter come first and the file ends in a
\* blank line.
C8_Witness ==
    /\ ReadCalled /\ rd.year # 0 /\ Len(DataLines) >= 2
    /\ ~Malformed(DataLines[1]) /\ int(Fields(DataLines[1])[7]) >= rd.year
    /\ DataLines[Len(DataLines)] = << "\n" >>
    /\ ~rd.result.ok

\* C6: after write_file(top, path) the file holds one line "<title>, <score>"
\* per entry of top, in order, and nothing else, whatever it held before.
C6_OnlyTheLastReport ==
    wr.impl # "none" =>
        /\ Len(disk) = Len(wr.top)
        /\ \A i \in 1..Len(wr.top) :
              disk[i] = wr.top[i][1] \o << ",", " " >> \o FloatStr(wr.top[i][2]) \o << "\n" >>

\* C6's case: the file held more lines than the report written over it.
C6_Witness ==
    /\ wr.impl # "none" /\ Len(wr.top) >= 1
    /\ wr.before > Len(wr.top)
    /\ Len(disk) = Len(wr.top)

====
